---- MODULE Spec2Model ----
(***************************************************************************)
(* Model of the translation glue layer: translation_module_setup.py        *)
(* (configuration variants, TranslationSetup, create_translator) and       *)
(* translator.py (Translation: model directory, download, model loading,   *)
(* translate).                                                             *)
(*                                                                         *)
(* A string is a sequence of atoms.  The atom "/" is the path separator;   *)
(* every other atom stands for a non-empty run of characters that holds no *)
(* separator.  The external collaborators (model-hub client, tokenizer     *)
(* library, inference runtime, torch) are opaque: each call either raises  *)
(* or returns, as chosen by the step's input record w.                     *)
(***************************************************************************)
EXTENDS Naturals, Sequences, FiniteSets

\* ------------------------------------------------------------------ bounds
\* Longest string (in atoms) the path functions are applied to.
MaxLen == 3
\* Most hypotheses one translation result of the inference runtime holds.
MaxHyp == 2

\* ------------------------------------------------------- optional values
\* Python's None and a present value.
None == [some |-> FALSE, val |-> <<>>]
Some(v) == [some |-> TRUE, val |-> v]
\* Python truthiness of an optional string: None and "" are falsy.
Truthy(o) == o.some /\ o.val # <<>>

\* ---------------------------------------------------------------- strings
SEP == "/"

RECURSIVE SeqsUpTo(_, _)
SeqsUpTo(A, n) ==
    IF n = 0 THEN {<<>>}
    ELSE LET shorter == SeqsUpTo(A, n - 1)
         IN  shorter \cup {Append(s, a) : s \in shorter, a \in A}

Last(s) == s[Len(s)]

\* str.rfind('/') + 1: the index just after the last separator, 0 if none.
RECURSIVE RFindAfter(_, _)
RFindAfter(s, i) ==
    IF i = 0 THEN 0
    ELSE IF s[i] = SEP THEN i
    ELSE RFindAfter(s, i - 1)

\* str.split('/'): the pieces between separators, empty pieces included.
RECURSIVE SplitFrom(_, _, _)
SplitFrom(s, i, cur) ==
    IF i > Len(s) THEN <<cur>>
    ELSE IF s[i] = SEP THEN <<cur>> \o SplitFrom(s, i + 1, <<>>)
    ELSE SplitFrom(s, i + 1, Append(cur, s[i]))

Split(s) == SplitFrom(s, 1, <<>>)

\* str.rstrip('/')
RECURSIVE RStrip(_)
RStrip(s) ==
    IF s # <<>> /\ Last(s) = SEP THEN RStrip(SubSeq(s, 1, Len(s) - 1))
    ELSE s

\* posixpath.join(a, b)
PathJoin(a, b) ==
    IF b # <<>> /\ Head(b) = SEP THEN b
    ELSE IF a = <<>> \/ Last(a) = SEP THEN a \o b
    ELSE a \o <<SEP>> \o b

\* posixpath.dirname(p)
PathDirname(p) ==
    LET head == SubSeq(p, 1, RFindAfter(p, Len(p)))
    IN  IF head # <<>> /\ \E k \in 1..Len(head) : head[k] # SEP
        THEN RStrip(head)
        ELSE head

\* ------------------------------------------------------ bounded input sets
\* Values of HUGGINGFACE_REPO_ID / repo_id, of MODEL_BASE_DIR / base_dir and of
\* HUGGINGFACE_TOKEN / hf_token that the model draws.
RepoIds == {<<>>, <<"m">>, <<"o", SEP, "m">>}
BaseDirs == {<<>>, <<"d">>, <<SEP, "d", SEP>>}
Tokens == {<<>>, <<"t">>}
Texts == {"ami", "tumi"}
Opt(S) == {None} \cup {Some(v) : v \in S}

\* translate_batch's return value: a list of results, each with a ranked list
\* of hypotheses (token sequences).  An empty list, or a result without a
\* hypothesis, breaks the runtime's contract and is kept as a failure case.
Hypotheses == {<<"u1">>, <<"u2">>}
HypothesisLists == SeqsUpTo(Hypotheses, MaxHyp)
BatchResults == {<<>>} \cup {<<[hypotheses |-> h]>> : h \in HypothesisLists}

\* ----------------------------------------------------------- program state
VARIABLES
    environ,             \* os.environ: the three variables the code reads
    dotenv,              \* the .env file load_dotenv() reads
    pending,             \* the create_translator call the caller makes
    created,             \* outcome of the last create_translator call
    service,             \* the TranslationSetup instance (its config)
    translation_system,  \* TranslationSetup.translation_system
    ret,                 \* outcome of the last translate_text call
    last_text,           \* argument of the last translate_text call
    log,                 \* collaborator calls of the last translate_text call
    model_directory,     \* what _get_model_directory returned in the last call
    made_dir,            \* argument of os.makedirs in the last call
    download_req,        \* arguments of snapshot_download in the last call
    batch_req,           \* arguments of translate_batch in the last call
    batch_res            \* what translate_batch returned in the last call

vars == <<environ, dotenv, pending, created, service, translation_system, ret,
          last_text, log, model_directory, made_dir, download_req, batch_req,
          batch_res>>

\* --------------------------------------------------------- configurations
DefaultRepoId == <<"nascenia", SEP, "bn2en_base">>

NoEnv == [HUGGINGFACE_REPO_ID |-> None, MODEL_BASE_DIR |-> None,
          HUGGINGFACE_TOKEN |-> None]

\* load_dotenv(): a variable of the file is set unless the process
\* environment already holds it (override is off).
LoadDotenv(env, file) ==
    [k \in DOMAIN env |-> IF env[k].some THEN env[k] ELSE file[k]]

Returned(v) == [raised |-> FALSE, val |-> v]
Raised == [raised |-> TRUE, val |-> None]

LocalTranslationConfig == [kind |-> "local", hf_token |-> None,
                           base_dir |-> None, repo_id |-> None]

ColabTranslationConfig(hf_token, base_dir, repo_id) ==
    [kind |-> "colab", hf_token |-> hf_token, base_dir |-> base_dir,
     repo_id |-> repo_id]

get_repo_id(config, env) ==
    IF config.kind = "local"
    THEN IF env.HUGGINGFACE_REPO_ID.some
         THEN Returned(env.HUGGINGFACE_REPO_ID)
         ELSE Returned(Some(DefaultRepoId))
    ELSE Returned(config.repo_id)

get_base_dir(config, env) ==
    IF config.kind = "local"
    THEN Returned(env.MODEL_BASE_DIR)
    ELSE Returned(config.base_dir)

\* Variant: the environment-sourced getter returns whatever the environment
\* holds, without the emptiness check.
get_token_unchecked(config, env) ==
    IF config.kind = "local"
    THEN Returned(env.HUGGINGFACE_TOKEN)
    ELSE Returned(config.hf_token)

get_token(config, env) ==
    IF config.kind = "local"
    THEN IF ~Truthy(env.HUGGINGFACE_TOKEN)
         THEN Raised
         ELSE Returned(env.HUGGINGFACE_TOKEN)
    ELSE Returned(config.hf_token)

\* ------------------------------------------------------------ Translation
NoTokenizer == [state |-> "none", model |-> <<>>]
NoEngine == [some |-> FALSE, model |-> <<>>, device |-> ""]
NoTranslation ==
    [some |-> FALSE, repo_id |-> <<>>, base_dir |-> None, hf_token |-> None,
     repo_name |-> <<>>, device |-> "", sp_source |-> NoTokenizer,
     sp_target |-> NoTokenizer, translator |-> NoEngine]

\* Translation.__init__ (device is never passed by TranslationSetup).
\* repo_id.split raises on None.
TranslationInit(repo_id, base_dir, hf_token, cuda) ==
    IF ~repo_id.some THEN [raised |-> TRUE, obj |-> NoTranslation]
    ELSE [raised |-> FALSE,
          obj |-> [some |-> TRUE, repo_id |-> repo_id.val,
                   base_dir |-> base_dir, hf_token |-> hf_token,
                   repo_name |-> Last(Split(repo_id.val)),
                   device |-> IF cuda THEN "cuda" ELSE "cpu",
                   sp_source |-> NoTokenizer, sp_target |-> NoTokenizer,
                   translator |-> NoEngine]]

\* Variant: base_dir and repo_name concatenated as strings, not as paths.
_get_model_directory_concat(self) ==
    IF Truthy(self.base_dir)
    THEN self.base_dir.val \o self.repo_name
    ELSE self.repo_name

_get_model_directory(self) ==
    IF Truthy(self.base_dir)
    THEN PathJoin(self.base_dir.val, self.repo_name)
    ELSE self.repo_name

Ev(op, ok) == [op |-> op, ok |-> ok]

NoDownload == [some |-> FALSE, repo_id |-> <<>>, local_dir |-> <<>>,
               token |-> None]

\* os.makedirs(path, exist_ok=True) raises FileNotFoundError on the empty
\* path; any other path is created.
MakedirsRaises(path) == path = <<>>

\* The rest of _download_models once model_dir and its parent are known.
DownloadTo(self, w, model_dir, parent) ==
    IF MakedirsRaises(parent)
    THEN [ret |-> None, log |-> <<Ev("makedirs", FALSE)>>,
          model_dir |-> Some(model_dir), made_dir |-> Some(parent),
          download_req |-> NoDownload]
    ELSE [ret |-> IF w.hub_ok THEN Some(model_dir) ELSE None,
          log |-> <<Ev("makedirs", TRUE), Ev("snapshot_download", w.hub_ok)>>,
          model_dir |-> Some(model_dir), made_dir |-> Some(parent),
          download_req |-> [some |-> TRUE, repo_id |-> self.repo_id,
                            local_dir |-> model_dir, token |-> self.hf_token]]

\* Translation._download_models: every raise inside is caught and gives None.
_download_models(self, w) ==
    DownloadTo(self, w, _get_model_directory(self),
               PathDirname(_get_model_directory(self)))

\* _initialize_models: both processors are created, then loaded in turn, then
\* the engine is built; a raise leaves what was assigned so far.
_initialize_models(self, ct_model_path, sp_source_path, sp_target_path, w) ==
    LET created_ == [self EXCEPT !.sp_source = [state |-> "unloaded", model |-> <<>>],
                                 !.sp_target = [state |-> "unloaded", model |-> <<>>]]
        src == [created_ EXCEPT !.sp_source = [state |-> "loaded", model |-> sp_source_path]]
        tgt == [src EXCEPT !.sp_target = [state |-> "loaded", model |-> sp_target_path]]
        eng == [tgt EXCEPT !.translator = [some |-> TRUE, model |-> ct_model_path,
                                           device |-> self.device]]
    IN  IF ~w.src_ok
        THEN [raised |-> TRUE, obj |-> created_, log |-> <<Ev("load_source", FALSE)>>]
        ELSE IF ~w.tgt_ok
        THEN [raised |-> TRUE, obj |-> src,
              log |-> <<Ev("load_source", TRUE), Ev("load_target", FALSE)>>]
        ELSE IF ~w.eng_ok
        THEN [raised |-> TRUE, obj |-> tgt,
              log |-> <<Ev("load_source", TRUE), Ev("load_target", TRUE),
                        Ev("load_engine", FALSE)>>]
        ELSE [raised |-> FALSE, obj |-> eng,
              log |-> <<Ev("load_source", TRUE), Ev("load_target", TRUE),
                        Ev("load_engine", TRUE)>>]

\* The end of setup: what _initialize_models did decides the result.
SetupLoaded(dl, im) ==
    [ok |-> ~im.raised, obj |-> im.obj, log |-> dl.log \o im.log,
     model_dir |-> dl.model_dir, made_dir |-> dl.made_dir, download_req |-> dl.download_req]

\* Variant: setup goes on to load the models whatever the download returned.
SetupWithoutCheck(self, w, dl) ==
    SetupLoaded(dl, _initialize_models(self,
                                       PathJoin(dl.model_dir.val, <<>>),
                                       PathJoin(dl.model_dir.val, <<"bn.model">>),
                                       PathJoin(dl.model_dir.val, <<"en.model">>),
                                       w))

\* setup after _download_models returned dl.
SetupWith(self, w, dl) ==
    IF ~Truthy(dl.ret)
    THEN [ok |-> FALSE, obj |-> self, log |-> dl.log,
          model_dir |-> dl.model_dir, made_dir |-> dl.made_dir, download_req |-> dl.download_req]
    ELSE SetupLoaded(dl, _initialize_models(self,
                                            PathJoin(dl.ret.val, <<>>),
                                            PathJoin(dl.ret.val, <<"bn.model">>),
                                            PathJoin(dl.ret.val, <<"en.model">>),
                                            w))

\* Translation.setup: every raise inside is caught and gives False.
setup(self, w) == SetupWith(self, w, _download_models(self, w))

\* ---------------------------------------------------- tokenizers, engine
\* The tokenizer library is opaque: pieces and text are determined by the
\* tokenizer model that produced them and by what was passed in.
encode_as_pieces(sp, text) == [sp |-> sp.model, text |-> text]
decode_pieces(sp, pieces) == [sp |-> sp.model, pieces |-> pieces]

NoText == [sp |-> <<>>, pieces |-> <<>>]
RetNone == [kind |-> "None", text |-> NoText]
RetText(t) == [kind |-> "text", text |-> t]
RetRaise == [kind |-> "raise", text |-> NoText]
NotCalled == [kind |-> "not called", text |-> NoText]

NoBatch == [some |-> FALSE, batch |-> <<>>, batch_type |-> "",
            max_batch_size |-> 0, engine |-> NoEngine]

\* Variant: the lowest-ranked hypothesis is read instead of the first.
LastHypothesis(translations) ==
    translations[1].hypotheses[Len(translations[1].hypotheses)]

\* The hypothesis translate() reads out of translate_batch's return value.
TopHypothesis(translations) == translations[1].hypotheses[1]

\* Translation.translate: every raise inside is caught and gives None.
translate(self, text, w) ==
    LET source_tokens == encode_as_pieces(self.sp_source, text)
        req == [some |-> TRUE, batch |-> <<source_tokens>>,
                batch_type |-> "tokens", max_batch_size |-> 4096,
                engine |-> self.translator]
        translations == w.results
        indexable == /\ Len(translations) >= 1
                     /\ Len(translations[1].hypotheses) >= 1
        translated_tokens == TopHypothesis(translations)
    IN  IF self.sp_source.state = "none" \/ ~w.enc_ok
        THEN [ret |-> RetNone, log |-> <<Ev("encode", FALSE)>>,
              batch_req |-> NoBatch, batch_res |-> <<>>]
        ELSE IF ~self.translator.some
        THEN [ret |-> RetNone, log |-> <<Ev("encode", TRUE)>>,
              batch_req |-> NoBatch, batch_res |-> <<>>]
        ELSE IF ~w.batch_ok
        THEN [ret |-> RetNone,
              log |-> <<Ev("encode", TRUE), Ev("translate_batch", FALSE)>>,
              batch_req |-> req, batch_res |-> <<>>]
        ELSE IF ~indexable
        THEN [ret |-> RetNone,
              log |-> <<Ev("encode", TRUE), Ev("translate_batch", TRUE)>>,
              batch_req |-> req, batch_res |-> translations]
        ELSE IF self.sp_target.state = "none" \/ ~w.dec_ok
        THEN [ret |-> RetNone,
              log |-> <<Ev("encode", TRUE), Ev("translate_batch", TRUE),
                        Ev("decode", FALSE)>>,
              batch_req |-> req, batch_res |-> translations]
        ELSE [ret |-> RetText(decode_pieces(self.sp_target, translated_tokens)),
              log |-> <<Ev("encode", TRUE), Ev("translate_batch", TRUE),
                        Ev("decode", TRUE)>>,
              batch_req |-> req, batch_res |-> translations]

\* ------------------------------------------------------- TranslationSetup
NoService == [some |-> FALSE, config |-> LocalTranslationConfig]

GetterLog(token_ok) ==
    <<Ev("get_repo_id", TRUE), Ev("get_base_dir", TRUE), Ev("get_token", token_ok)>>

\* initialize_system once Translation(...) was built and assigned: the
\* object stays assigned whatever setup() returns.
InitializeSetup(su) ==
    [ok |-> su.ok, system |-> su.obj,
     log |-> GetterLog(TRUE) \o <<Ev("Translation", TRUE)>> \o su.log,
     model_dir |-> su.model_dir, made_dir |-> su.made_dir, download_req |-> su.download_req]

\* initialize_system after the getters: made is what Translation(...) did.
InitializeWith(current, w, made) ==
    IF made.raised
    THEN [ok |-> FALSE, system |-> current,
          log |-> GetterLog(TRUE) \o <<Ev("Translation", FALSE)>>,
          model_dir |-> None, made_dir |-> None, download_req |-> NoDownload]
    ELSE InitializeSetup(setup(made.obj, w))

\* TranslationSetup.initialize_system: the three getters run in argument
\* order, then Translation(...) is built and assigned, then setup() runs on
\* it.  Any raise is caught and gives False.
initialize_system(config, env, current, w) ==
    IF get_token(config, env).raised
    THEN [ok |-> FALSE, system |-> current, log |-> GetterLog(FALSE),
          model_dir |-> None, made_dir |-> None, download_req |-> NoDownload]
    ELSE InitializeWith(current, w,
                        TranslationInit(get_repo_id(config, env).val,
                                        get_base_dir(config, env).val,
                                        get_token(config, env).val, w.cuda))

\* Variant: the handler of translate_text lets the exception through.
TranslateTextReraise == RetRaise

\* What the handler of translate_text does with an exception that reaches it.
TranslateTextHandler == RetNone

\* Variant: a call whose translation failed drops the loaded Translation.
TranslateWithReset(init, tr) ==
    [ret |-> tr.ret,
     system |-> IF tr.ret.kind = "None" THEN NoTranslation ELSE init.system,
     log |-> init.log \o tr.log,
     model_dir |-> init.model_dir, made_dir |-> init.made_dir,
     download_req |-> init.download_req,
     batch_req |-> tr.batch_req, batch_res |-> tr.batch_res]

\* The return statement of translate_text: init is what happened before it
\* in this call, tr what translation_system.translate(text) did.
TranslateWith(init, tr) ==
    [ret |-> tr.ret, system |-> init.system, log |-> init.log \o tr.log,
     model_dir |-> init.model_dir, made_dir |-> init.made_dir, download_req |-> init.download_req,
     batch_req |-> tr.batch_req, batch_res |-> tr.batch_res]

\* translate_text after initialize_system returned init.
TranslateAfterInit(text, w, init) ==
    IF ~init.ok
    THEN [ret |-> TranslateTextHandler, system |-> init.system,
          log |-> init.log, model_dir |-> init.model_dir,
          made_dir |-> init.made_dir,
          download_req |-> init.download_req,
          batch_req |-> NoBatch, batch_res |-> <<>>]
    ELSE TranslateWith(init, translate(init.system, text, w))

\* A call that finds translation_system set runs no initialization.
Initialized(current) ==
    [ok |-> TRUE, system |-> current, log |-> <<>>, model_dir |-> None,
     made_dir |-> None,
     download_req |-> NoDownload]

\* Variant: translate_text initializes on every call.
translate_text_reinit(config, env, current, text, w) ==
    TranslateAfterInit(text, w, initialize_system(config, env, current, w))

\* TranslationSetup.translate_text, as the record of everything it changes.
translate_text(config, env, current, text, w) ==
    IF ~current.some
    THEN TranslateAfterInit(text, w, initialize_system(config, env, current, w))
    ELSE TranslateWith(Initialized(current), translate(current, text, w))

\* --------------------------------------------------------- create_translator
required_params == <<"hf_token", "base_dir", "repo_id">>

\* Variant: every required parameter is reported once any is missing.
missing_params_all(kwargs) ==
    IF \E i \in 1..Len(required_params) : required_params[i] \notin kwargs.present
    THEN required_params
    ELSE <<>>

\* [param for param in required_params if param not in kwargs]
missing_params(kwargs) ==
    LET absent(param) == param \notin kwargs.present
    IN  SelectSeq(required_params, absent)

\* ', '.join(names)
RECURSIVE JoinComma(_)
JoinComma(names) ==
    IF names = <<>> THEN <<>>
    ELSE IF Len(names) = 1 THEN names
    ELSE <<Head(names), ", ">> \o JoinComma(Tail(names))

MissingMessage(missing) ==
    <<"Missing required parameters for Colab setup: ">> \o JoinComma(missing)

NoError == <<>>

\* create_translator(env, **kwargs): the service returned or the error raised,
\* and os.environ as LocalTranslationConfig.__init__ leaves it.
create_translator(env, kwargs, os_environ, file) ==
    IF env = "local"
    THEN [raised |-> FALSE, message |-> NoError,
          service |-> [some |-> TRUE, config |-> LocalTranslationConfig],
          environ |-> LoadDotenv(os_environ, file)]
    ELSE IF env = "colab"
    THEN IF missing_params(kwargs) # <<>>
         THEN [raised |-> TRUE, message |-> MissingMessage(missing_params(kwargs)),
               service |-> NoService, environ |-> os_environ]
         ELSE [raised |-> FALSE, message |-> NoError,
               service |-> [some |-> TRUE,
                            config |-> ColabTranslationConfig(
                                kwargs.hf_token, kwargs.base_dir, kwargs.repo_id)],
               environ |-> os_environ]
    ELSE [raised |-> TRUE, message |-> <<"Unsupported environment: ", env>>,
          service |-> NoService, environ |-> os_environ]

\* ------------------------------------------------------------ the callers
\* Environments and .env files of a process configured through its
\* environment, and the keyword arguments of a caller that passes its
\* configuration explicitly.
Environs == [HUGGINGFACE_REPO_ID : Opt(RepoIds), MODEL_BASE_DIR : Opt(BaseDirs),
             HUGGINGFACE_TOKEN : Opt(Tokens)]

FullEnv == [HUGGINGFACE_REPO_ID |-> Some(<<"m">>), MODEL_BASE_DIR |-> Some(<<"d">>),
            HUGGINGFACE_TOKEN |-> Some(<<"t">>)]

DotenvFiles == {NoEnv, [NoEnv EXCEPT !.HUGGINGFACE_TOKEN = Some(<<"t">>)], FullEnv}

NoKwargs == [env |-> "local", present |-> {}, hf_token |-> None,
             base_dir |-> None, repo_id |-> None]

\* Keyword arguments: a key that is passed carries a value (None included);
\* a key that is not passed carries nothing.
ColabCalls ==
    {[env |-> "colab", present |-> S, hf_token |-> t, base_dir |-> b, repo_id |-> r] :
        S \in SUBSET {"hf_token", "base_dir", "repo_id"},
        t \in Opt({<<"t">>}), b \in Opt(BaseDirs), r \in Opt(RepoIds)}

CanonicalCall(c) ==
    /\ "hf_token" \notin c.present => c.hf_token = None
    /\ "base_dir" \notin c.present => c.base_dir = None
    /\ "repo_id" \notin c.present => c.repo_id = None

\* What the collaborators do during one translate_text call.
SetupWorlds ==
    {[cuda |-> c, hub_ok |-> n >= 1, src_ok |-> n >= 2, tgt_ok |-> n >= 3,
      eng_ok |-> n >= 4] : c \in BOOLEAN, n \in 0..4}

TranslateWorlds ==
    {[enc_ok |-> FALSE, batch_ok |-> TRUE, results |-> <<>>, dec_ok |-> TRUE],
     [enc_ok |-> TRUE, batch_ok |-> FALSE, results |-> <<>>, dec_ok |-> TRUE]}
    \cup {[enc_ok |-> TRUE, batch_ok |-> TRUE, results |-> r, dec_ok |-> d] :
            r \in BatchResults, d \in BOOLEAN}

\* When translate_batch cannot be reached (no engine is or gets loaded), only
\* the outcome of encode is left to choose.
EncodeWorlds ==
    {[enc_ok |-> e, batch_ok |-> TRUE, results |-> <<>>, dec_ok |-> TRUE] :
        e \in BOOLEAN}

LoadsAll(s) == s.hub_ok /\ s.src_ok /\ s.tgt_ok /\ s.eng_ok

World(s, t) ==
    [cuda |-> s.cuda, hub_ok |-> s.hub_ok, src_ok |-> s.src_ok,
     tgt_ok |-> s.tgt_ok, eng_ok |-> s.eng_ok, enc_ok |-> t.enc_ok,
     batch_ok |-> t.batch_ok, results |-> t.results, dec_ok |-> t.dec_ok]

AllLoad == [cuda |-> FALSE, hub_ok |-> TRUE, src_ok |-> TRUE, tgt_ok |-> TRUE,
            eng_ok |-> TRUE]

NotCreated == [called |-> FALSE, raised |-> FALSE, message |-> NoError]

Fresh ==
    /\ created = NotCreated
    /\ service = NoService
    /\ translation_system = NoTranslation
    /\ ret = NotCalled
    /\ last_text = ""
    /\ log = <<>>
    /\ model_directory = None
    /\ made_dir = None
    /\ download_req = NoDownload
    /\ batch_req = NoBatch
    /\ batch_res = <<>>

Init ==
    /\ \/ /\ environ \in Environs
          /\ dotenv \in DotenvFiles
          /\ pending = NoKwargs
       \/ /\ environ \in {NoEnv, FullEnv}
          /\ dotenv = NoEnv
          /\ pending \in {c \in ColabCalls : CanonicalCall(c)}
                         \cup {[NoKwargs EXCEPT !.env = "other"]}
    /\ Fresh

\* The caller runs create_translator with the arguments it holds.
CreateTranslator ==
    /\ ~service.some
    /\ \E r \in {create_translator(pending.env, pending, environ, dotenv)} :
          /\ created' = [called |-> TRUE, raised |-> r.raised, message |-> r.message]
          /\ service' = r.service
          /\ environ' = r.environ
    /\ UNCHANGED <<dotenv, pending, translation_system, ret, last_text, log,
                   model_directory, made_dir, download_req, batch_req,
                   batch_res>>

\* The credential in the process environment is set, emptied or removed
\* between calls (a process that is configured through its environment).
SetToken ==
    /\ pending.env = "local"
    /\ \E t \in Opt(Tokens) \ {environ.HUGGINGFACE_TOKEN} :
          environ' = [environ EXCEPT !.HUGGINGFACE_TOKEN = t]
    /\ UNCHANGED <<dotenv, pending, created, service, translation_system, ret,
                   last_text, log, model_directory, made_dir, download_req, batch_req,
                   batch_res>>

\* One call service.translate_text(text).
TranslateText ==
    /\ service.some
    /\ \E text \in Texts :
       \E s \in IF translation_system.some THEN {AllLoad} ELSE SetupWorlds :
       \E t \in IF translation_system.translator.some
                    \/ (~translation_system.some /\ LoadsAll(s))
                 THEN TranslateWorlds ELSE EncodeWorlds :
       \E r \in {translate_text(service.config, environ, translation_system,
                                text, World(s, t))} :
          /\ translation_system' = r.system
          /\ ret' = r.ret
          /\ last_text' = text
          /\ log' = r.log
          /\ model_directory' = r.model_dir
          /\ made_dir' = r.made_dir
          /\ download_req' = r.download_req
          /\ batch_req' = r.batch_req
          /\ batch_res' = r.batch_res
    /\ UNCHANGED <<environ, dotenv, pending, created, service>>

Next == CreateTranslator \/ SetToken \/ TranslateText

Spec == Init /\ [][Next]_vars

\* ------------------------------------------------- the model directory alone
\* A caller that builds Translation(repo_id, base_dir) itself and asks for
\* its model directory, over every string up to MaxLen atoms.
PathRepoIds == SeqsUpTo({"o", SEP}, MaxLen)
PathBaseDirs == SeqsUpTo({"d", SEP}, MaxLen)

InitPath ==
    /\ environ = NoEnv
    /\ dotenv = NoEnv
    /\ pending \in {[env |-> "direct", present |-> {"base_dir", "repo_id"},
                     hf_token |-> None, base_dir |-> b, repo_id |-> Some(r)] :
                       b \in Opt(PathBaseDirs), r \in PathRepoIds}
    /\ Fresh

GetModelDirectory ==
    /\ \E cuda \in BOOLEAN :
       \E made \in {TranslationInit(pending.repo_id, pending.base_dir,
                                    pending.hf_token, cuda)} :
          /\ translation_system' = made.obj
          /\ model_directory' = Some(_get_model_directory(made.obj))
    /\ UNCHANGED <<environ, dotenv, pending, created, service, ret, last_text,
                   log, made_dir, download_req, batch_req, batch_res>>

NextPath == GetModelDirectory

SpecPath == InitPath /\ [][NextPath]_vars

\* ================================================================ properties
HasEv(l, op) == \E i \in 1..Len(l) : l[i].op = op
HasOk(l, op) == \E i \in 1..Len(l) : l[i] = Ev(op, TRUE)
HasFail(l, op) == \E i \in 1..Len(l) : l[i] = Ev(op, FALSE)

SetupOps == {"get_repo_id", "get_base_dir", "get_token", "Translation",
             "makedirs", "snapshot_download", "load_source", "load_target",
             "load_engine"}
LoadOps == {"load_source", "load_target", "load_engine"}
TranslateOps == {"encode", "translate_batch", "decode"}

NoSetupStep(l) == \A i \in 1..Len(l) : l[i].op \notin SetupOps
\* A setup attempt failed at one of its steps: reading the configuration,
\* fetching the model, loading a tokenizer, loading the engine.
SetupFailed(l) ==
    \E i \in 1..Len(l) : l[i].op \in SetupOps \ {"makedirs"} /\ ~l[i].ok
TranslateFailed(l) == \E i \in 1..Len(l) : l[i].op \in TranslateOps /\ ~l[i].ok

\* The service is Ready: a setup succeeded (the engine is assigned last).
Ready == translation_system.some /\ translation_system.translator.some

\* Steps told apart by what they change: only create_translator records a
\* first call, and of the steps on a constructed service only translate_text
\* leaves the environment alone.
CreateStep == ~created.called /\ created'.called
TranslateStep == service.some /\ environ' = environ

\* C1: after a translate_text call whose setup attempt failed at any step,
\* the call has returned None, and the next translate_text call on the
\* instance attempts the setup again from its first step, going on to the
\* fetch once the configuration is read and the directory is ensured.
C1_FailedSetupIsRetried ==
    [][(SetupFailed(log) /\ TranslateStep)
          => /\ ret.kind = "None"
             /\ HasEv(log', "get_repo_id")
             /\ HasOk(log', "Translation") => HasEv(log', "makedirs")
             /\ HasOk(log', "makedirs") => HasEv(log', "snapshot_download")]_vars

GoodTranslateWorlds ==
    {t \in TranslateWorlds :
        /\ t.enc_ok /\ t.batch_ok /\ t.dec_ok
        /\ Len(t.results) >= 1 /\ Len(t.results[1].hypotheses) >= 1}

\* In a Ready state every call whose collaborators do not fail gives a text.
ReadyServes ==
    Ready => \A text \in Texts : \A t \in GoodTranslateWorlds :
                translate_text(service.config, environ, translation_system,
                               text, World(AllLoad, t)).ret.kind = "text"

C3_FailedCallKeepsReady ==
    /\ []ReadyServes
    /\ [][(Ready /\ TranslateStep)
            => /\ translation_system' = translation_system
               /\ NoSetupStep(log')
               /\ TranslateFailed(log') => ret'.kind = "None"]_vars

C3_Witness ==
    /\ Ready
    /\ ret.kind = "None"
    /\ log = <<Ev("encode", TRUE), Ev("translate_batch", FALSE)>>

\* C4: create_translator(COLAB, **kwargs) with some of hf_token, base_dir,
\* repo_id not passed raises, returns no service, and its message names
\* exactly the parameters not passed; with all three passed it raises
\* nothing and the service's configuration yields the values passed.
ParamNames == {"hf_token", "base_dir", "repo_id"}
NamedIn(message) == {message[i] : i \in 1..Len(message)} \cap ParamNames

C4_ColabParameters ==
    (created.called /\ pending.env = "colab")
       => IF pending.present # ParamNames
          THEN /\ created.raised
               /\ ~service.some
               /\ NamedIn(created.message) = ParamNames \ pending.present
          ELSE /\ ~created.raised
               /\ service.some
               /\ get_token(service.config, environ) = Returned(pending.hf_token)
               /\ get_base_dir(service.config, environ) = Returned(pending.base_dir)
               /\ get_repo_id(service.config, environ) = Returned(pending.repo_id)

C4_Witness ==
    /\ created.called /\ pending.env = "colab"
    /\ pending.present = {"base_dir"}
    /\ created.raised
    /\ created.message = <<"Missing required parameters for Colab setup: ",
                           "hf_token", ", ", "repo_id">>

\* C5: whatever fails, a translate_text call ends by returning a text or
\* None: no exception reaches the caller.
C5_NoExceptionEscapes ==
    service.some => ret.kind \in {"not called", "None", "text"}

C5_Witness ==
    /\ ret.kind = "None"
    /\ HasFail(log, "load_engine")

\* C6: a text returned by translate_text is the target tokenizer's decoding
\* of the first hypothesis of the first result of translate_batch, called on
\* the one-item batch holding the source tokenizer's encoding of the text;
\* and a call whose encode, translate_batch and decode all succeed returns
\* a text.
C6_TopHypothesisDecoded ==
    /\ ret.kind = "text"
         => /\ batch_req.some
            /\ batch_req.batch =
                 <<[sp |-> translation_system.sp_source.model, text |-> last_text]>>
            /\ Last(translation_system.sp_source.model) = "bn.model"
            /\ ret.text = [sp |-> translation_system.sp_target.model,
                           pieces |-> Head(Head(batch_res).hypotheses)]
            /\ Last(translation_system.sp_target.model) = "en.model"
    /\ HasOk(log, "decode") => ret.kind = "text"

C6_Witness ==
    /\ ret.kind = "text"
    /\ Len(batch_res[1].hypotheses) = 2
    /\ batch_res[1].hypotheses[1] # batch_res[1].hypotheses[2]
    /\ ret.text.pieces = batch_res[1].hypotheses[1]

\* The portion of a repository id after its last separator: the suffix that
\* holds no separator and is the whole id or follows a separator.
NameStart(repo_id) ==
    CHOOSE k \in 0..Len(repo_id) :
        /\ \A i \in (k + 1)..Len(repo_id) : repo_id[i] # SEP
        /\ k = 0 \/ repo_id[k] = SEP
NameOf(repo_id) == SubSeq(repo_id, NameStart(repo_id) + 1, Len(repo_id))

\* C7: the derived model path is the portion of repository_id after its last
\* '/' alone when storage_directory is absent (None or empty); otherwise it
\* is storage_directory, a path separator, and that portion: what precedes
\* the portion is storage_directory itself when that ends the separator, or
\* storage_directory followed by one separator.
C7_ModelDirectory ==
    model_directory.some
       => LET base == translation_system.base_dir
              name == NameOf(translation_system.repo_id)
              path == model_directory.val
              rest == SubSeq(path, 1, Len(path) - Len(name))
          IN  IF ~base.some \/ base.val = <<>>
              THEN path = name
              ELSE /\ Len(path) >= Len(name)
                   /\ SubSeq(path, Len(path) - Len(name) + 1, Len(path)) = name
                   /\ rest \in {base.val, base.val \o <<SEP>>}
                   /\ Last(rest) = SEP

\* "org/model-x" under "/data" gives "/data/model-x".
C7_Witness ==
    /\ translation_system.some
    /\ translation_system.repo_id = <<"o", SEP, "o">>
    /\ translation_system.base_dir = Some(<<SEP, "d">>)
    /\ model_directory = Some(<<SEP, "d", SEP, "o">>)

\* C8: whenever a fetch runs, with or without a storage_directory, the parent
\* directory of the target is ensured first, then the download is requested
\* with the repository id, the credential and the target; the request is
\* always issued, and the fetch gives absence only when the client fails.
FetchRan == service.some /\ model_directory.some

C8_FetchAlwaysRequests ==
    FetchRan
       => /\ made_dir = Some(PathDirname(model_directory.val))
          /\ \E i \in 1..Len(log) :
                /\ log[i] = Ev("makedirs", TRUE)
                /\ i < Len(log) /\ log[i + 1].op = "snapshot_download"
          /\ download_req = [some |-> TRUE,
                             repo_id |-> translation_system.repo_id,
                             local_dir |-> model_directory.val,
                             token |-> translation_system.hf_token]
          /\ ~HasOk(log, "snapshot_download") => HasFail(log, "snapshot_download")

\* C9: once Ready the service stays Ready with the very same Translation
\* object (model location, tokenizers, engine, device), whatever happens to
\* the environment; a later translate_text call reads no configuration,
\* derives no directory, requests no fetch and loads nothing, and what it
\* submits goes to the engine and tokenizer loaded at that setup.
C9_SetupRunsOnce ==
    [][Ready
          => /\ translation_system' = translation_system
             /\ TranslateStep
                  => /\ NoSetupStep(log')
                     /\ model_directory' = None /\ made_dir' = None
                     /\ download_req' = NoDownload
                     /\ batch_req'.some
                          => /\ batch_req'.engine = translation_system.translator
                             /\ batch_req'.batch[1].sp
                                  = translation_system.sp_source.model]_vars

C9_Witness ==
    /\ Ready
    /\ ret.kind = "text"
    /\ NoSetupStep(log)
    /\ translation_system.hf_token = Some(<<"t">>)
    /\ environ.HUGGINGFACE_TOKEN = None

\* C10: within a call, a tokenizer or engine load happens only after a fetch
\* that returned a path earlier in the same call; a text is returned only by
\* a service whose fetch, source tokenizer, target tokenizer and engine all
\* succeeded in one setup attempt, so all three were loaded from the path of
\* that one fetch; a partially initialized bundle never yields a text.
C10_LoadsFollowFetch ==
    /\ \A i \in 1..Len(log) :
          log[i].op \in LoadOps
             => \E j \in 1..(i - 1) : log[j] = Ev("snapshot_download", TRUE)
    /\ (translation_system.sp_source.state # "none"
            \/ translation_system.sp_target.state # "none"
            \/ translation_system.translator.some)
          => translation_system.some
    /\ translation_system.translator.some
          => /\ translation_system.sp_source.state = "loaded"
             /\ translation_system.sp_target.state = "loaded"
             /\ \E dir \in {translation_system.translator.model} :
                   /\ translation_system.sp_source.model = dir \o <<"bn.model">>
                   /\ translation_system.sp_target.model = dir \o <<"en.model">>
    /\ ret.kind = "text"
          => /\ Ready
             /\ ~NoSetupStep(log)
                  => \A op \in LoadOps \cup {"snapshot_download"} : HasOk(log, op)

C10_Witness ==
    /\ translation_system.some
    /\ translation_system.sp_source.state = "loaded"
    /\ translation_system.sp_target.state = "loaded"
    /\ ~translation_system.translator.some
    /\ NoSetupStep(log)
    /\ ret.kind = "None"
    /\ log = <<Ev("encode", TRUE)>>

\* The steps are what CreateStep and TranslateStep take them for.
StepsToldApart ==
    [][/\ CreateStep <=> CreateTranslator
       /\ TranslateStep <=> TranslateText]_vars
====
